---- MODULE Spec2Model ----
(***************************************************************************)
(* IntelliLearn (src/projects/app.py): a Streamlit page that indexes       *)
(* uploaded PDF documents and answers questions / generates a quiz over    *)
(* them through a ConversationalRetrievalChain.                            *)
(*                                                                         *)
(* Streamlit re-executes run_UI from the top on every widget interaction.  *)
(* One run is modelled as the sequence of its three conditional blocks     *)
(* (question box, sidebar "Start Chatting" button, "Quiz Me" button); pc   *)
(* is the position of the run.  An uncaught exception aborts the run: the  *)
(* blocks after it are not executed.                                       *)
(***************************************************************************)
EXTENDS Integers, Sequences, FiniteSets, TLC

\* ---- bounds of the model ----
MaxExchanges == 2      \* (user, assistant) pairs one engine's memory may hold
MaxFiles == 2          \* documents in the uploader at once

\* ---- program constants ----
chunk_size == 1000
chunk_overlap == 200

\* Python's None / a present value (session_state entries are one or the other)
None == <<>>
Some(x) == <<x>>

\* ---- text: a string is a sequence of characters ----
separator == "\n"
Whitespace == {" ", "\n"}

GoodPage == <<"a", "\n", "b">>
BlankPage == <<>>

\* An uploaded file: PdfReader either parses it into pages or raises.
GoodDoc == [name |-> "good.pdf", readable |-> TRUE, pages |-> <<GoodPage, GoodPage>>]
BlankDoc == [name |-> "blank.pdf", readable |-> TRUE, pages |-> <<BlankPage>>]
CorruptDoc == [name |-> "corrupt.pdf", readable |-> FALSE, pages |-> <<>>]
Documents == {GoodDoc, BlankDoc, CorruptDoc}

\* the values of the uploader: up to n different files, in upload order
RECURSIVE Uploads(_)
Uploads(n) ==
  IF n = 0 THEN {<<>>}
  ELSE LET shorter == Uploads(n - 1)
           longest == {f \in shorter : Len(f) = n - 1}
       IN shorter \cup
          UNION {{Append(fs, d) : d \in {x \in Documents : \A i \in DOMAIN fs : fs[i] # x}} :
                 fs \in longest}

\* what the user may type in the question box ("" is the empty box)
Questions == {"q1", "q2"}
\* what the chat service may answer
Replies == {"r1", "r2"}

RECURSIVE page_text(_)
page_text(pages) ==
  IF pages = <<>> THEN <<>> ELSE Head(pages) \o page_text(Tail(pages))

\* extract_text: the loop over pdf_files; raises at the first file PdfReader
\* cannot parse, otherwise returns the concatenation of all pages.
RECURSIVE extract_text(_)
extract_text_skip_unreadable(pdf_files) ==
  LET ok == SelectSeq(pdf_files, LAMBDA f : f.readable)
  IN IF ok = <<>> THEN [error |-> "none", text |-> <<>>]
     ELSE [error |-> "none",
           text |-> page_text(Head(ok).pages) \o extract_text(Tail(ok)).text]

extract_text(pdf_files) ==
  IF pdf_files = <<>> THEN [error |-> "none", text |-> <<>>]
  ELSE IF ~Head(pdf_files).readable THEN [error |-> "PdfReadError", text |-> <<>>]
  ELSE LET rest == extract_text(Tail(pdf_files))
       IN IF rest.error # "none" THEN rest
          ELSE [error |-> "none", text |-> page_text(Head(pdf_files).pages) \o rest.text]

\* ---- CharacterTextSplitter(separator, chunk_size, chunk_overlap, len) ----
\* str.split(sep)
RECURSIVE split(_, _)
split(text, sep) ==
  IF \A i \in 1..Len(text) : text[i] # sep THEN <<text>>
  ELSE LET k == CHOOSE i \in 1..Len(text) :
                   text[i] = sep /\ \A j \in 1..(i - 1) : text[j] # sep
       IN <<SubSeq(text, 1, k - 1)>> \o split(SubSeq(text, k + 1, Len(text)), sep)

\* str.strip()
RECURSIVE strip(_)
strip(text) ==
  IF text = <<>> THEN text
  ELSE IF Head(text) \in Whitespace THEN strip(Tail(text))
  ELSE IF text[Len(text)] \in Whitespace THEN strip(SubSeq(text, 1, Len(text) - 1))
  ELSE text

\* separator.join(docs)
RECURSIVE join(_, _)
join(docs, sep) ==
  IF docs = <<>> THEN <<>>
  ELSE IF Len(docs) = 1 THEN docs[1]
  ELSE docs[1] \o <<sep>> \o join(Tail(docs), sep)

\* _join_docs: the joined, stripped text, or None when nothing is left
join_docs(docs, sep) ==
  LET text == strip(join(docs, sep))
  IN IF text = <<>> THEN None ELSE Some(text)

SepLen(current_doc, n) == IF Len(current_doc) > n THEN 1 ELSE 0

\* the while loop of _merge_splits: drop pieces from the front of current_doc
\* until at most `overlap` characters are kept and the next piece fits
RECURSIVE pop_front(_, _, _, _, _)
pop_front(current_doc, total, len, size, overlap) ==
  IF total > overlap \/ (total + len + SepLen(current_doc, 0) > size /\ total > 0)
  THEN pop_front(Tail(current_doc),
                 total - (Len(current_doc[1]) + SepLen(current_doc, 1)),
                 len, size, overlap)
  ELSE [current_doc |-> current_doc, total |-> total]

\* _merge_splits: the for loop over the pieces, then the final flush
RECURSIVE merge_splits(_, _, _, _, _, _)
merge_splits(splits, docs, current_doc, total, size, overlap) ==
  IF splits = <<>> THEN docs \o join_docs(current_doc, separator)
  ELSE
    LET d == Head(splits)
        len == Len(d)
        full == total + len + SepLen(current_doc, 0) > size
        flushed == IF full /\ Len(current_doc) > 0
                   THEN docs \o join_docs(current_doc, separator) ELSE docs
        kept == IF full /\ Len(current_doc) > 0
                THEN pop_front(current_doc, total, len, size, overlap)
                ELSE [current_doc |-> current_doc, total |-> total]
        doc2 == Append(kept.current_doc, d)
    IN merge_splits(Tail(splits), flushed, doc2,
                    kept.total + len + SepLen(doc2, 1), size, overlap)

\* split_text: split on the separator, drop empty pieces, merge
split_text(text, size, overlap) ==
  merge_splits(SelectSeq(split(text, separator), LAMBDA s : s # <<>>),
               <<>>, <<>>, 0, size, overlap)

get_chunks(text) == split_text(text, chunk_size, chunk_overlap)

\* get_vectorstore: FAISS.from_texts embeds the chunks and sizes the index
\* from the first embedding; with no chunk there is no first embedding.
get_vectorstore_empty_index(chunks, embedding_ok) ==
  IF chunks # <<>> /\ ~embedding_ok THEN [error |-> "EmbeddingError", store |-> None]
  ELSE [error |-> "none", store |-> Some([texts |-> chunks])]

get_vectorstore(chunks, embedding_ok) ==
  IF chunks = <<>> THEN [error |-> "IndexError", store |-> None]
  ELSE IF ~embedding_ok THEN [error |-> "EmbeddingError", store |-> None]
  ELSE [error |-> "none", store |-> Some([texts |-> chunks])]

\* get_conversation_chain: a chain over the store with a fresh, empty memory
get_conversation_chain_with_greeting(vector_store) ==
  [retriever |-> vector_store,
   memory |-> <<[type |-> "ai", content |-> [kind |-> "reply", arg |-> "r1"]]>>]

get_conversation_chain(vector_store) ==
  [retriever |-> vector_store, memory |-> <<>>]

\* ---- messages and display writes ----
backend_prompt(user_question) == [kind |-> "backend_prompt", arg |-> user_question]
quiz_prompt == [kind |-> "quiz_prompt", arg |-> ""]
HumanMessage(content) == [type |-> "human", content |-> content]
AIMessage(reply) == [type |-> "ai", content |-> [kind |-> "reply", arg |-> reply]]

user_template(msg) == [template |-> "user", msg |-> msg]
bot_template(msg) == [template |-> "bot", msg |-> msg]
quiz_title == [template |-> "text", msg |-> [kind |-> "title", arg |-> "Quiz questions"]]

\* st.session_state.conversations({'question': question}).
\* Calling None raises TypeError.  Otherwise the chain loads its memory,
\* retrieves, asks the chat service, and on success saves the (human, ai)
\* pair into its memory; the returned chat_history is the memory's own list,
\* so it holds the new pair too.  A failure raises before anything is saved.
chain_call_saves_question_first(conversations, question, outcome, reply) ==
  IF conversations = None
  THEN [error |-> "TypeError", conversations |-> conversations, requests |-> 0, chat_history |-> None]
  ELSE LET chain == conversations[1]
           asked == Append(chain.memory, HumanMessage(question))
       IN IF outcome = "ok"
          THEN [error |-> "none",
                conversations |-> Some([chain EXCEPT !.memory = Append(asked, AIMessage(reply))]),
                requests |-> 1,
                chat_history |-> Some(Append(asked, AIMessage(reply)))]
          ELSE [error |-> outcome,
                conversations |-> Some([chain EXCEPT !.memory = asked]),
                requests |-> IF outcome = "ChatError" THEN 1 ELSE 0,
                chat_history |-> None]

chain_call_on_none_starts_chain(conversations, question, outcome, reply) ==
  LET chain == IF conversations = None THEN get_conversation_chain(None) ELSE conversations[1]
      memory == chain.memory \o <<HumanMessage(question), AIMessage(reply)>>
  IN IF outcome = "ok"
     THEN [error |-> "none",
           conversations |-> Some([chain EXCEPT !.memory = memory]),
           requests |-> 1,
           chat_history |-> Some(memory)]
     ELSE [error |-> outcome, conversations |-> conversations,
           requests |-> IF outcome = "ChatError" THEN 1 ELSE 0,
           chat_history |-> None]

chain_call(conversations, question, outcome, reply) ==
  IF conversations = None
  THEN [error |-> "TypeError", conversations |-> conversations, requests |-> 0, chat_history |-> None]
  ELSE LET chain == conversations[1]
           memory == chain.memory \o <<HumanMessage(question), AIMessage(reply)>>
       IN IF outcome = "ok"
          THEN [error |-> "none",
                conversations |-> Some([chain EXCEPT !.memory = memory]),
                requests |-> 1,
                chat_history |-> Some(memory)]
          ELSE [error |-> outcome, conversations |-> conversations,
                requests |-> IF outcome = "ChatError" THEN 1 ELSE 0,
                chat_history |-> None]

\* the outcomes of one call of the chain: the retriever's embedding request
\* or the chat request may fail
CallOutcomes == {"ok", "EmbeddingError", "ChatError"}

\* the rendering loop of generate_response
response_writes(chat_history, user_question) ==
  [i \in 1..Len(chat_history) |->
     IF (i - 1) % 2 = 0
     THEN user_template([kind |-> "question", arg |-> user_question])
     ELSE bot_template(chat_history[i].content)]

\* the rendering loop of generate_quiz: every message but the first
quiz_writes(chat_history) ==
  [i \in 1..(Len(chat_history) - 1) |-> bot_template(chat_history[i + 1].content)]

\* the "Start Chatting" block: extract, chunk, index, bind a new chain.
\* The assignment to session_state.conversations is its last statement.
process_documents_binds_on_failure(conversations, pdf_files, embedding_ok) ==
  LET raw_text == extract_text(pdf_files)
      chunks == get_chunks(raw_text.text)
      vector_store == get_vectorstore(chunks, embedding_ok)
  IN IF raw_text.error # "none"
     THEN [error |-> raw_text.error, conversations |-> Some(get_conversation_chain(None))]
     ELSE IF vector_store.error # "none"
     THEN [error |-> vector_store.error, conversations |-> Some(get_conversation_chain(None))]
     ELSE [error |-> "none",
           conversations |-> Some(get_conversation_chain(vector_store.store))]

process_documents(conversations, pdf_files, embedding_ok) ==
  LET raw_text == extract_text(pdf_files)
      chunks == get_chunks(raw_text.text)
      vector_store == get_vectorstore(chunks, embedding_ok)
  IN IF raw_text.error # "none"
     THEN [error |-> raw_text.error, conversations |-> conversations]
     ELSE IF vector_store.error # "none"
     THEN [error |-> vector_store.error, conversations |-> conversations]
     ELSE [error |-> "none",
           conversations |-> Some(get_conversation_chain(vector_store.store))]

\* ---- state ----
VARIABLES
  conversations,   \* st.session_state.conversations: None or Some(chain)
  chat_history,    \* st.session_state.chat_history: None or Some(messages)
  user_question,   \* the value of the question box ("" when empty)
  pdf_files,       \* the value of the file uploader
  button,          \* the button whose click started the run: none/process/quiz
  pc,              \* position of the run: idle/question/sidebar/quiz
  handler,         \* the block of run_UI that executed last
  error,           \* the exception that aborted the run, "none" if none
  display,         \* the message writes of the run, in order
  requests         \* chat-service requests sent during the run

vars == <<conversations, chat_history, user_question, pdf_files, button, pc,
          handler, error, display, requests>>

session == <<conversations, chat_history>>
widgets == <<user_question, pdf_files>>

\* the state after the first page load: both session entries set to None
Init ==
  /\ conversations = None
  /\ chat_history = None
  /\ user_question = ""
  /\ pdf_files = <<>>
  /\ button = "none"
  /\ pc = "idle"
  /\ handler = "none"
  /\ error = "none"
  /\ display = <<>>
  /\ requests = 0

\* every interaction starts a new run of run_UI from the top
StartRun(b) ==
  /\ pc = "idle"
  /\ button' = b
  /\ pc' = "question"
  /\ handler' = "none"
  /\ error' = "none"
  /\ display' = <<>>
  /\ requests' = 0
  /\ UNCHANGED session

\* the user edits the question box
TextInput ==
  \E q \in Questions \cup {""} :
    /\ q # user_question
    /\ user_question' = q
    /\ UNCHANGED pdf_files
    /\ StartRun("none")

\* the user changes the uploaded files
FileUpload ==
  \E fs \in Uploads(MaxFiles) :
    /\ fs # pdf_files
    /\ pdf_files' = fs
    /\ UNCHANGED user_question
    /\ StartRun("none")

ClickProcess == UNCHANGED widgets /\ StartRun("process")

ClickQuiz == UNCHANGED widgets /\ StartRun("quiz")

Memory == IF conversations = None THEN <<>> ELSE conversations[1].memory
HasRoom == Len(Memory) < 2 * MaxExchanges

\* an uncaught exception ends the run where it is raised
Abort(e) ==
  /\ error' = e
  /\ pc' = "idle"

\* "if user_question:" is false
NoQuestion ==
  /\ pc = "question"
  /\ user_question = ""
  /\ pc' = "sidebar"
  /\ UNCHANGED <<session, widgets, button, handler, error, display, requests>>

\* generate_response(user_question)
GenerateResponse ==
  /\ pc = "question"
  /\ user_question # ""
  /\ HasRoom
  /\ handler' = "generate_response"
  /\ \E outcome \in CallOutcomes, reply \in Replies :
       LET response == chain_call(conversations, backend_prompt(user_question), outcome, reply)
       IN /\ conversations' = response.conversations
          /\ requests' = requests + response.requests
          /\ IF response.error = "none"
             THEN /\ chat_history' = response.chat_history
                  /\ display' = display \o response_writes(response.chat_history[1], user_question)
                  /\ pc' = "sidebar"
                  /\ UNCHANGED error
             ELSE /\ Abort(response.error)
                  /\ UNCHANGED <<chat_history, display>>
  /\ UNCHANGED <<widgets, button>>

\* the "Start Chatting" button was not the one clicked
NoProcess ==
  /\ pc = "sidebar"
  /\ button # "process"
  /\ pc' = "quiz"
  /\ UNCHANGED <<session, widgets, button, handler, error, display, requests>>

\* the "Start Chatting" block
ProcessDocuments ==
  /\ pc = "sidebar"
  /\ button = "process"
  /\ handler' = "process"
  /\ \E embedding_ok \in BOOLEAN :
       LET result == process_documents(conversations, pdf_files, embedding_ok)
       IN /\ conversations' = result.conversations
          /\ IF result.error = "none"
             THEN pc' = "quiz" /\ UNCHANGED error
             ELSE Abort(result.error)
  /\ UNCHANGED <<chat_history, widgets, button, display, requests>>

\* the "Quiz Me" button was not the one clicked
NoQuiz ==
  /\ pc = "quiz"
  /\ button # "quiz"
  /\ pc' = "idle"
  /\ UNCHANGED <<session, widgets, button, handler, error, display, requests>>

\* generate_quiz()
GenerateQuiz ==
  /\ pc = "quiz"
  /\ button = "quiz"
  /\ HasRoom
  /\ handler' = "generate_quiz"
  /\ pc' = "idle"
  /\ \E outcome \in CallOutcomes, reply \in Replies :
       LET response == chain_call(conversations, quiz_prompt, outcome, reply)
       IN /\ conversations' = response.conversations
          /\ requests' = requests + response.requests
          /\ error' = response.error
          /\ IF response.error = "none"
             THEN /\ chat_history' = response.chat_history
                  /\ display' = display \o <<quiz_title>> \o quiz_writes(response.chat_history[1])
             ELSE /\ UNCHANGED chat_history
                  /\ display' = Append(display, quiz_title)
  /\ UNCHANGED <<widgets, button>>

Next ==
  \/ TextInput
  \/ FileUpload
  \/ ClickProcess
  \/ ClickQuiz
  \/ NoQuestion
  \/ GenerateResponse
  \/ NoProcess
  \/ ProcessDocuments
  \/ NoQuiz
  \/ GenerateQuiz

Spec == Init /\ [][Next]_vars

TypeOK ==
  /\ pc \in {"idle", "question", "sidebar", "quiz"}
  /\ button \in {"none", "process", "quiz"}
  /\ user_question \in Questions \cup {""}
  /\ Len(conversations) <= 1
  /\ Len(chat_history) <= 1
  /\ requests \in 0..2

\* ---- properties ----
Hist(h) == IF h = None THEN <<>> ELSE h[1]
Uninitialized == conversations = None
Ready == conversations # None
AskStep == pc = "question" /\ user_question # ""
QuizStep == pc = "quiz" /\ button = "quiz"
ProcessStep == pc = "sidebar" /\ button = "process"
NewIndex == Some([texts |-> get_chunks(extract_text(pdf_files).text)])

\* C1: a question asked while no engine is bound sends no request to the chat
\* service and leaves chat_history and the (absent) engine as they were.
C1_UninitializedAskIsInert ==
  [][(AskStep /\ Uninitialized)
       => (requests' = requests /\ chat_history' = chat_history /\ conversations' = None)]_vars

C1_Witness ==
  /\ handler = "generate_response"
  /\ error = "TypeError"
  /\ Uninitialized
  /\ requests = 0
  /\ user_question \in Questions

\* C2: a question or a quiz requested while no engine is bound ends normally
\* with a "please upload and process a document first" notice on the display.
C2_UninitializedGivesNotice ==
  [][((AskStep \/ QuizStep) /\ Uninitialized)
       => (error' = "none" /\ \E i \in DOMAIN display' : display'[i].template = "notice")]_vars

\* C3: a successful question in Ready state makes the dialogue history (the
\* engine's memory and the session's chat_history) the earlier history
\* followed by one user turn and one assistant turn.
C3_AskAppendsTwoTurns ==
  [][(AskStep /\ Ready /\ error' = "none")
       => \E reply \in Replies :
            LET turns == <<HumanMessage(backend_prompt(user_question)), AIMessage(reply)>>
            IN /\ Memory' = Memory \o turns
               /\ Hist(chat_history') = Hist(chat_history) \o turns]_vars

C5_ReprocessClearsHistory ==
  [][(ProcessStep /\ Ready /\ Hist(chat_history) # <<>> /\ error' = "none")
       => /\ conversations' = Some(get_conversation_chain(NewIndex))
          /\ Hist(chat_history') = <<>>]_vars

\* C6: every message a quiz writes to the display is assistant content: no
\* quiz prompt and no other user-turn text is written.
C6_QuizShowsOnlyGenerated ==
  [][(QuizStep /\ Ready)
       => \A i \in (Len(display) + 1)..Len(display') :
            display'[i].template = "bot" => display'[i].msg.kind = "reply"]_vars

\* C7: the session becomes Ready only by a processing step that extracted,
\* chunked and indexed the uploaded files without error; the engine it binds
\* is the one over that index.
C7_ReadyOnlyByProcessing ==
  [][(Uninitialized /\ conversations' # None)
       => /\ ProcessStep
          /\ error' = "none"
          /\ extract_text(pdf_files).error = "none"
          /\ get_chunks(extract_text(pdf_files).text) # <<>>
          /\ conversations' = Some(get_conversation_chain(NewIndex))]_vars

C7_Witness ==
  /\ handler = "process"
  /\ error = "none"
  /\ Ready
  /\ Memory = <<>>
  /\ chat_history = None

C9_EmptyTextStaysUninitialized ==
  [][(ProcessStep /\ Uninitialized /\ extract_text(pdf_files) = [error |-> "none", text |-> <<>>])
       => /\ error' = "IndexError"
          /\ pc' = "idle"
          /\ conversations' = None]_vars

C9_Witness ==
  /\ handler = "process"
  /\ error = "IndexError"
  /\ Uninitialized
  /\ pdf_files = <<BlankDoc>>

\* C10: a run started by the process button on parseable, non-empty files,
\* with the embedding service working, ends with the session Ready, whatever
\* the question box holds.
GoodUpload ==
  /\ pdf_files # <<>>
  /\ \A i \in DOMAIN pdf_files : pdf_files[i] = GoodDoc

C10_ProcessingEndsReady ==
  (pc = "idle" /\ button = "process" /\ GoodUpload /\ error # "EmbeddingError")
    => Ready

IsPrefix(s, t) == Len(s) <= Len(t) /\ SubSeq(t, 1, Len(s)) = s

\* C11: the session's dialogue history is append-only: every step of every
\* run (question, quiz, processing) leaves the turns chat_history held before
\* it as a prefix of what it holds after it.
C11_HistoryAppendOnly ==
  [][IsPrefix(Hist(chat_history), Hist(chat_history'))]_vars

\* ---- the chunker on its own: one processing run per extracted text ----
MaxLines == 3
LineLengths == {1, 200, 600, 1000, 1001}
Line(n) == [i \in 1..n |-> "a"]

\* the texts of up to n lines of these lengths, joined by newlines
RECURSIVE LineSeqs(_)
LineSeqs(n) ==
  IF n = 0 THEN {<<>>}
  ELSE LET shorter == LineSeqs(n - 1)
       IN shorter \cup {Append(ls, Line(k)) : ls \in {l \in shorter : Len(l) = n - 1},
                                              k \in LineLengths}

RawTexts == {join(ls, separator) : ls \in LineSeqs(MaxLines) \ {<<>>}}
TextDoc(text) == [name |-> "text.pdf", readable |-> TRUE, pages |-> <<text>>]

\* the run has reached the "Start Chatting" block of a fresh session
InitChunks ==
  /\ conversations = None
  /\ chat_history = None
  /\ user_question = ""
  /\ pdf_files \in {<<TextDoc(text)>> : text \in RawTexts}
  /\ button = "process"
  /\ pc = "sidebar"
  /\ handler = "none"
  /\ error = "none"
  /\ display = <<>>
  /\ requests = 0

NextChunks ==
  \/ ProcessDocuments
  \/ NoQuiz

SpecChunks == InitChunks /\ [][NextChunks]_vars

IndexedChunks == IF Ready THEN conversations[1].retriever[1].texts ELSE <<>>
Suffix(s, k) == SubSeq(s, Len(s) - k + 1, Len(s))
Overlap(c1, c2) ==
  \E k \in 0..chunk_overlap :
    k <= Len(c1) /\ k <= Len(c2) /\ Suffix(c1, k) = SubSeq(c2, 1, k)

\* C12: for every non-empty text, every chunk get_chunks returns is at most
\* chunk_size characters long, and each chunk starts with an overlap of at
\* most chunk_overlap characters taken from the end of the chunk before it.
C12_ChunksWithinMaxSize ==
  \A i \in DOMAIN IndexedChunks :
    /\ Len(IndexedChunks[i]) <= chunk_size
    /\ i > 1 => Overlap(IndexedChunks[i - 1], IndexedChunks[i])

\* what the transcript should show for one turn of the history: the question
\* the user typed for a question turn, the reply for an assistant turn
AskedQuestion(message) == [kind |-> "question", arg |-> message.content.arg]

\* C13: a successful question in Ready state writes one entry per turn of
\* chat_history, user and assistant alternating; each assistant entry shows
\* that turn's reply and each user entry of a question turn shows the
\* question typed in that turn.
C13_TranscriptShowsEachTurn ==
  [][(AskStep /\ Ready /\ error' = "none")
       => LET turns == Hist(chat_history')
              shown == SubSeq(display', Len(display) + 1, Len(display'))
          IN /\ Len(shown) = Len(turns)
             /\ \A i \in DOMAIN turns :
                  /\ shown[i].template = (IF turns[i].type = "human" THEN "user" ELSE "bot")
                  /\ turns[i].type = "ai" => shown[i].msg = turns[i].content
                  /\ (turns[i].type = "human" /\ turns[i].content.kind = "backend_prompt")
                       => shown[i].msg = AskedQuestion(turns[i])]_vars

\* C14: one interaction sends at most one request to the chat service: a run
\* started by the quiz button sends the quiz prompt only, and a run started by
\* the process button sends none, whatever the question box holds.
C14_OneRequestPerInteraction ==
  /\ requests <= 1
  /\ button = "process" => requests = 0

\* C15: chat_history is None or holds an even number of turns, a user turn at
\* every even index (from 0) and an assistant turn at every odd index.
C15_HistoryAlternates ==
  \/ chat_history = None
  \/ /\ Len(chat_history[1]) % 2 = 0
     /\ \A i \in DOMAIN chat_history[1] :
          chat_history[1][i].type = (IF (i - 1) % 2 = 0 THEN "human" ELSE "ai")

C15_Witness ==
  /\ Len(Hist(chat_history)) = 4
  /\ Hist(chat_history)[1].content.kind = "backend_prompt"
  /\ Hist(chat_history)[3].content = quiz_prompt
  /\ handler = "process"
  /\ error = "PdfReadError"

====
